---- MODULE Spec2Model ----
(***************************************************************************)
(* Voxel viewer (viewer.py): display_vox_model, load_vox_model and          *)
(* create_3d_scatter as a state machine.  Coordinates are IEEE-754 binary64 *)
(* values, modelled exactly: a finite float is sign * mag * 2^exp with mag  *)
(* an odd natural number of at most 53 bits, kept as a sequence of 15-bit   *)
(* limbs (least significant first).  Every arithmetic operation of the     *)
(* source is the exact operation followed by round-to-nearest-even, as      *)
(* numpy and Python compute it.  The sign of zero is not kept: -0.0 and 0.0 *)
(* compare equal in every comparison the source or a claim makes.           *)
(***************************************************************************)
EXTENDS Integers, Sequences, FiniteSets, TLC

(* ------------------------------ bounds -------------------------------- *)

\* grid coordinates run over 0..MaxCoord on each axis
MaxCoord == 1
\* decoded grids hold at most MaxOccupied nonzero cells
MaxOccupied == 2
\* voxel values run over 0..MaxValue
MaxValue == 2
\* number of concurrent clients of the interface
NReq == 2

(* ------------------------------- state -------------------------------- *)

VARIABLES
  pc,        \* pc[r]: where invocation r of display_vox_model stands
  frame,     \* frame[r]: the local variables of invocation r
  decoder,   \* decoder[r]: what the external decoder produced for invocation r
  returned,  \* returned[r]: the values invocation r has returned
  terminal,  \* terminal[r]: the terminal state invocation r has reached
  trace,     \* trace[r]: the stages invocation r has run, in order
  prev       \* one earlier finished run: its input and the scene it returned

vars == <<pc, frame, decoder, returned, terminal, trace, prev>>

(* ----------------------- binary64 arithmetic -------------------------- *)

LimbBits == 15
Base == 2 ^ LimbBits

RECURSIVE Trim(_)
Trim(a) == IF a # <<>> /\ a[Len(a)] = 0 THEN Trim(SubSeq(a, 1, Len(a) - 1)) ELSE a

Limb(a, i) == IF 1 <= i /\ i <= Len(a) THEN a[i] ELSE 0

RECURSIVE BitLen(_)
BitLen(n) == IF n = 0 THEN 0 ELSE 1 + BitLen(n \div 2)

NatLen(a) == IF a = <<>> THEN 0 ELSE (LimbBits * (Len(a) - 1)) + BitLen(a[Len(a)])

BitAt(a, i) == (Limb(a, ((i - 1) \div LimbBits) + 1) \div (2 ^ ((i - 1) % LimbBits))) % 2

LowBitsZero(a, n) ==
  /\ \A j \in 1..Len(a) : j <= (n \div LimbBits) => a[j] = 0
  /\ (Limb(a, (n \div LimbBits) + 1) % (2 ^ (n % LimbBits))) = 0

Shl(a, n) ==
  LET w == n \div LimbBits
      s == n % LimbBits
  IN  Trim([j \in 1..(Len(a) + w + 1) |->
              ((Limb(a, j - w) * (2 ^ s)) % Base) + (Limb(a, j - w - 1) \div (2 ^ (LimbBits - s)))])

Shr(a, n) ==
  LET w == n \div LimbBits
      s == n % LimbBits
  IN  Trim([j \in 1..(Len(a) - w) |->
              (Limb(a, j + w) \div (2 ^ s)) + ((Limb(a, j + w + 1) % (2 ^ s)) * (2 ^ (LimbBits - s)))])

RECURSIVE AddFrom(_, _, _, _)
AddFrom(a, b, i, c) ==
  IF i > Len(a) /\ i > Len(b)
  THEN IF c = 0 THEN <<>> ELSE <<c>>
  ELSE LET t == Limb(a, i) + Limb(b, i) + c
       IN  <<t % Base>> \o AddFrom(a, b, i + 1, t \div Base)

AddNat(a, b) == AddFrom(a, b, 1, 0)

RECURSIVE SubFrom(_, _, _, _)
SubFrom(a, b, i, c) ==
  IF i > Len(a)
  THEN <<>>
  ELSE LET t == Limb(a, i) - Limb(b, i) - c
       IN  <<t % Base>> \o SubFrom(a, b, i + 1, IF t < 0 THEN 1 ELSE 0)

SubNat(a, b) == Trim(SubFrom(a, b, 1, 0))

RECURSIVE LessFrom(_, _, _)
LessFrom(a, b, i) ==
  IF i = 0 THEN FALSE
  ELSE IF a[i] # b[i] THEN a[i] < b[i]
  ELSE LessFrom(a, b, i - 1)

LessNat(a, b) ==
  IF Len(a) # Len(b) THEN Len(a) < Len(b) ELSE LessFrom(a, b, Len(a))

RECURSIVE MulLimb(_, _, _, _)
MulLimb(a, m, i, c) ==
  IF i > Len(a)
  THEN IF c = 0 THEN <<>> ELSE <<c>>
  ELSE LET t == (a[i] * m) + c
       IN  <<t % Base>> \o MulLimb(a, m, i + 1, t \div Base)

RECURSIVE MulNat(_, _)
MulNat(a, b) ==
  IF a = <<>> \/ b = <<>>
  THEN <<>>
  ELSE AddNat(MulLimb(b, Head(a), 1, 0), <<0>> \o MulNat(Tail(a), b))

RECURSIVE DivThree(_, _, _)
DivThree(a, i, r) ==
  IF i = 0
  THEN [q |-> <<>>, r |-> r]
  ELSE LET cur == (r * Base) + a[i]
           low == DivThree(a, i - 1, cur % 3)
       IN  [q |-> Append(low.q, cur \div 3), r |-> low.r]

RECURSIVE NatLimbs(_)
NatLimbs(n) == IF n = 0 THEN <<>> ELSE <<n % Base>> \o NatLimbs(n \div Base)

RECURSIVE FromHex(_)
FromHex(h) ==
  IF h = <<>> THEN <<>>
  ELSE AddNat(MulLimb(FromHex(SubSeq(h, 1, Len(h) - 1)), 16, 1, 0), NatLimbs(h[Len(h)]))

RECURSIVE LowZeros(_, _)
LowZeros(a, i) == IF BitAt(a, i) = 1 THEN i - 1 ELSE LowZeros(a, i + 1)

Dyadic(neg, mag, exp) ==
  IF Trim(mag) = <<>>
  THEN [neg |-> FALSE, mag |-> <<>>, exp |-> 0]
  ELSE LET k == LowZeros(mag, 1)
       IN  [neg |-> neg, mag |-> Shr(mag, k), exp |-> exp + k]

FromInt(n) == Dyadic(n < 0, NatLimbs(IF n < 0 THEN -n ELSE n), 0)

Neg(u) == Dyadic(~u.neg, u.mag, u.exp)

ExactAdd(u, v) ==
  LET e == IF u.exp < v.exp THEN u.exp ELSE v.exp
      a == Shl(u.mag, u.exp - e)
      b == Shl(v.mag, v.exp - e)
  IN  IF u.neg = v.neg THEN Dyadic(u.neg, AddNat(a, b), e)
      ELSE IF LessNat(a, b) THEN Dyadic(v.neg, SubNat(b, a), e)
      ELSE Dyadic(u.neg, SubNat(a, b), e)

ExactSub(u, v) == ExactAdd(u, Neg(v))

ExactMul(u, v) ==
  Dyadic(u.neg # v.neg,
         IF Len(u.mag) <= Len(v.mag) THEN MulNat(u.mag, v.mag) ELSE MulNat(v.mag, u.mag),
         u.exp + v.exp)

Less(u, v) == LET d == ExactSub(u, v) IN d.neg

Leq(u, v) == ~Less(v, u)

MantissaBits == 53

RoundNearestEven(neg, mag, exp, sticky) ==
  IF NatLen(mag) <= MantissaBits
  THEN Dyadic(neg, mag, exp)
  ELSE LET k    == NatLen(mag) - MantissaBits
           kept == Shr(mag, k)
           rest == sticky \/ ~LowBitsZero(mag, k - 1)
           up   == BitAt(mag, k) = 1 /\ (rest \/ BitAt(kept, 1) = 1)
       IN  Dyadic(neg, IF up THEN AddNat(kept, <<1>>) ELSE kept, exp + k)

Fl(u) == RoundNearestEven(u.neg, u.mag, u.exp, FALSE)

FAdd(u, v) == Fl(ExactAdd(u, v))
FSub(u, v) == Fl(ExactSub(u, v))
FMul(u, v) == Fl(ExactMul(u, v))

GuardBits == 60

\* u / 1.5 = (2 * u) / 3
FDivOnePointFive(u) ==
  IF u.mag = <<>>
  THEN u
  ELSE LET n == Shl(u.mag, GuardBits)
           d == DivThree(n, Len(n), 0)
       IN  RoundNearestEven(u.neg, Trim(d.q), u.exp + 1 - GuardBits, d.r # 0)

FHalf(u) == Dyadic(u.neg, u.mag, u.exp - 1)

(* ---------------- constants of the trigonometric stage ---------------- *)

\* np.cos(np.pi / 2) = 0x1.1a62633145c07p-54 = 6.123233995736766e-17
CosThetaX == Dyadic(FALSE, FromHex(<<1, 1, 10, 6, 2, 6, 3, 3, 1, 4, 5, 12, 0, 7>>), -106)
\* np.sin(np.pi / 2) = 1.0
SinThetaX == FromInt(1)
\* np.cos(np.pi) = -1.0
CosThetaZ == FromInt(-1)
\* np.sin(np.pi) = 0x1.1a62633145c07p-53 = 1.2246467991473532e-16
SinThetaZ == Dyadic(FALSE, FromHex(<<1, 1, 10, 6, 2, 6, 3, 3, 1, 4, 5, 12, 0, 7>>), -105)

(* ------------------------------ values -------------------------------- *)

Req == 1..NReq

NoneValue == [kind |-> "None"]
Unbound == [kind |-> "Unbound"]
NoException == [kind |-> "NoException", type |-> "", detail |-> ""]
Exception(type, detail) == [kind |-> "Exception", type |-> type, detail |-> detail]

\* an uploaded file object; name is the sequence of the characters of .name
File(name) == [kind |-> "File", name |-> name]

Coords == 0..MaxCoord
Cells == Coords \X Coords \X Coords

ndarray(data) == [kind |-> "ndarray", data |-> data]
list(items) == [kind |-> "list", items |-> items]

\* a.size
size(a) == Cardinality(DOMAIN a.data)
\* counts every cell
count_cells(a) == Cardinality(DOMAIN a.data)
\* np.count_nonzero(a)
count_nonzero(a) == Cardinality({c \in DOMAIN a.data : a.data[c] # 0})

\* z outermost, then y, then x
ColumnMajorLess(c, d) ==
  \/ c[3] < d[3]
  \/ c[3] = d[3] /\ c[2] < d[2]
  \/ c[3] = d[3] /\ c[2] = d[2] /\ c[1] < d[1]

\* row-major order of the cells of a dense array: x outermost, then y, then z
RowMajorLess(c, d) ==
  \/ c[1] < d[1]
  \/ c[1] = d[1] /\ c[2] < d[2]
  \/ c[1] = d[1] /\ c[2] = d[2] /\ c[3] < d[3]

RECURSIVE Scan(_)
Scan(S) ==
  IF S = {} THEN <<>>
  ELSE LET first == CHOOSE c \in S : \A d \in S \ {c} : RowMajorLess(c, d)
       IN  <<first>> \o Scan(S \ {first})

\* np.nonzero(a): the indices of the nonzero cells, in row-major order
nonzero(a) == Scan({c \in DOMAIN a.data : a.data[c] # 0})

(* --------------------------- text helpers ----------------------------- *)

\* suffix in str
contains(str, suffix) ==
  \E i \in 1..Len(str) :
    i + Len(suffix) - 1 <= Len(str) /\ SubSeq(str, i, i + Len(suffix) - 1) = suffix

\* str.endswith
endswith(str, suffix) ==
  /\ Len(str) >= Len(suffix)
  /\ SubSeq(str, Len(str) - Len(suffix) + 1, Len(str)) = suffix

DotVox == <<".", "v", "o", "x">>

Digit(d) == CASE d = 0 -> "0" [] d = 1 -> "1" [] d = 2 -> "2" [] d = 3 -> "3"
              [] d = 4 -> "4" [] d = 5 -> "5" [] d = 6 -> "6" [] d = 7 -> "7"
              [] d = 8 -> "8" [] d = 9 -> "9"

\* the decimal text of a non-negative integer, as an f-string formats it
RECURSIVE IntText(_)
IntText(n) == IF n < 10 THEN Digit(n) ELSE IntText(n \div 10) \o Digit(n % 10)

\* f'rgb({int(e[0])}, {int(e[1])}, {int(e[2])})'
RgbText(e) == "rgb(" \o IntText(e[1]) \o ", " \o IntText(e[2]) \o ", " \o IntText(e[3]) \o ")"

White == "rgb(255, 255, 255)"

MsgMissingInput == "Please upload a .vox file"
MsgInvalidExtension == "Please upload a valid .vox file"
MsgDecodeError ==
  "Error: Could not load voxel data from file\n" \o
  "This might be due to version incompatibility.\n" \o
  "The viewer currently supports .vox files up to version 200."
MsgEmpty == "Error: No voxels found in the model"
MsgUnexpected(detail) == "Error loading model: " \o detail

(* ------------------------------ figures ------------------------------- *)

NoFigure ==
  [kind |-> "Unbound", text |-> "", x |-> <<>>, y |-> <<>>, z |-> <<>>, color |-> <<>>,
   xrange |-> <<>>, yrange |-> <<>>, zrange |-> <<>>]

\* go.Figure() with one centred annotation on the black background
Annotation(text) == [NoFigure EXCEPT !.kind = "annotation", !.text = text]

(* --------------------------- load_vox_model --------------------------- *)

\* load_vox_model without its try block: the decoder's exception leaves it
load_vox_model_propagates(decoded) ==
  IF decoded.kind = "raise"
  THEN [exc |-> [kind |-> "Exception", type |-> "ParsingException", detail |-> decoded.detail],
        voxels |-> NoneValue, palette |-> NoneValue]
  ELSE IF count_nonzero(decoded.dense) = 0
  THEN [exc |-> NoException, voxels |-> NoneValue, palette |-> NoneValue]
  ELSE [exc |-> NoException, voxels |-> decoded.dense, palette |-> decoded.palette]

\* load_vox_model keeping the last decoded model in a module-level cache and
\* answering from it
load_vox_model_cached(decoded) ==
  IF prev.decoder.kind = "model" /\ count_nonzero(prev.decoder.dense) > 0
  THEN [exc |-> NoException, voxels |-> prev.decoder.dense, palette |-> prev.decoder.palette]
  ELSE IF decoded.kind = "raise" \/ count_nonzero(decoded.dense) = 0
  THEN [exc |-> NoException, voxels |-> NoneValue, palette |-> NoneValue]
  ELSE [exc |-> NoException, voxels |-> decoded.dense, palette |-> decoded.palette]

\* The result of a call: the exception it lets out (NoException when it returns)
\* and the pair it returns.
load_vox_model(decoded) ==
  IF decoded.kind = "raise"
  THEN [exc |-> NoException, voxels |-> NoneValue, palette |-> NoneValue]
  ELSE IF count_nonzero(decoded.dense) = 0
  THEN [exc |-> NoException, voxels |-> NoneValue, palette |-> NoneValue]
  ELSE [exc |-> NoException, voxels |-> decoded.dense, palette |-> decoded.palette]

(* -------------------------- create_3d_scatter ------------------------- *)

\* array + scalar
Offset(a, k) == [i \in 1..Len(a) |-> FAdd(a[i], k)]

\* array * scalar and array +/- array of numpy, elementwise in binary64
Times(a, k) == [i \in 1..Len(a) |-> FMul(a[i], k)]
Minus(a, b) == [i \in 1..Len(a) |-> FSub(a[i], b[i])]
Plus(a, b) == [i \in 1..Len(a) |-> FAdd(a[i], b[i])]

RECURSIVE ArrayMax(_)
ArrayMax(a) ==
  IF Len(a) = 1 THEN a[1]
  ELSE LET m == ArrayMax(Tail(a)) IN IF Less(a[1], m) THEN m ELSE a[1]

RECURSIVE ArrayMin(_)
ArrayMin(a) ==
  IF Len(a) = 1 THEN a[1]
  ELSE LET m == ArrayMin(Tail(a)) IN IF Less(m, a[1]) THEN m ELSE a[1]

\* the extent of the first axis only
FirstOfThree(a, b, c) == a

\* max(a, b, c) of Python
Max3(a, b, c) ==
  LET ab == IF Less(a, b) THEN b ELSE a IN IF Less(ab, c) THEN c ELSE ab

\* lines 32-48: the occupied cells, their colour indices, and the two rotations
Transform(fr) ==
  LET cells == nonzero(fr.voxels)
      x0 == [i \in 1..Len(cells) |-> FromInt(cells[i][1])]
      y0 == [i \in 1..Len(cells) |-> FromInt(cells[i][2])]
      z0 == [i \in 1..Len(cells) |-> FromInt(cells[i][3])]
      y1 == Minus(Times(y0, CosThetaX), Times(z0, SinThetaX))
      z1 == Plus(Times(y0, SinThetaX), Times(z0, CosThetaX))
      x2 == Minus(Times(x0, CosThetaZ), Times(y1, SinThetaZ))
      y2 == Plus(Times(x0, SinThetaZ), Times(y1, CosThetaZ))
  IN  [fr EXCEPT !.color_indices = [i \in 1..Len(cells) |-> fr.voxels.data[cells[i]] - 1],
                 !.x = x2, !.y = y2, !.z = z1]

\* palette[c] of a Python sequence: c counts from 0, a negative c from the end
Item(items, c) == IF c >= 0 THEN items[c + 1] ELSE items[Len(items) + c + 1]

\* lines 52-53: one colour per point; the first palette entry that has fewer than
\* three channels is an IndexError
Color(fr) ==
  LET items == fr.palette.items
      used == {i \in 1..Len(fr.color_indices) : fr.color_indices[i] < Len(items)}
      bad == {i \in used : Len(Item(items, fr.color_indices[i])) < 3}
  IN  IF bad # {}
      THEN [fr EXCEPT !.exc = Exception("IndexError", "tuple index out of range")]
      ELSE [fr EXCEPT !.rgb_colors =
              [i \in 1..Len(fr.color_indices) |->
                 IF i \in used THEN RgbText(Item(items, fr.color_indices[i])) ELSE White]]

\* lines 56-94: the figure and its framing
Build(fr) ==
  IF Len(fr.x) = 0
  THEN [fr EXCEPT !.exc = Exception("ValueError",
          "zero-size array to reduction operation maximum which has no identity")]
  ELSE
  LET center_x == FHalf(FAdd(ArrayMax(fr.x), ArrayMin(fr.x)))
      center_y == FHalf(FAdd(ArrayMax(fr.y), ArrayMin(fr.y)))
      center_z == FHalf(FAdd(ArrayMax(fr.z), ArrayMin(fr.z)))
      max_range == Max3(FSub(ArrayMax(fr.x), ArrayMin(fr.x)),
                        FSub(ArrayMax(fr.y), ArrayMin(fr.y)),
                        FSub(ArrayMax(fr.z), ArrayMin(fr.z)))
      reach == FDivOnePointFive(max_range)
  IN  [fr EXCEPT !.fig =
        [kind |-> "scatter3d", text |-> "",
         x |-> fr.x, y |-> fr.y, z |-> fr.z, color |-> fr.rgb_colors,
         xrange |-> <<FSub(center_x, reach), FAdd(center_x, reach)>>,
         yrange |-> <<FSub(center_y, reach), FAdd(center_y, reach)>>,
         zrange |-> <<FSub(center_z, reach), FAdd(center_z, reach)>>]]

(* ------------------------------- inputs ------------------------------- *)

Text(s) == [i \in 1..Len(s) |-> s[i]]

\* file names offered to the upload surface
Names ==
  { <<"m", "o", "d", "e", "l", ".", "t", "x", "t">>,
    <<"m", "o", "d", "e", "l", ".", "V", "O", "X">>,
    <<"m", "o", "d", "e", "l", ".", "v", "o", "x">>,
    <<"a", ".", "v", "o", "x", ".", "b", "a", "k">>,
    <<"v", "o", "x">>,
    <<".", "v", "o", "x">>,
    <<>> }

Files == {NoneValue} \cup {File(n) : n \in Names}

RECURSIVE OccupiedSets(_)
OccupiedSets(k) ==
  IF k = 0 THEN {{}}
  ELSE LET P == OccupiedSets(k - 1) IN P \cup {p \cup {c} : p \in P, c \in Cells}

\* the dense grids of the bounded shape with at most MaxOccupied occupied cells
Grids ==
  UNION {{ndarray([c \in Cells |-> IF c \in O THEN a[c] ELSE 0]) : a \in [O -> 1..MaxValue]} :
           O \in OccupiedSets(MaxOccupied)}

\* a dense array with a zero dimension
EmptyArray == ndarray([c \in {} |-> 0])

\* palettes: entries are (r, g, b, a) or (r, g, b); an entry with fewer than
\* three channels is malformed
Palettes ==
  { list(<< <<10, 20, 30, 255>> >>),
    list(<< <<10, 20, 30, 255>>, <<0, 255, 7, 255>> >>),
    list(<< <<10, 20, 30>>, <<1, 2>> >>) }

DecodeFailures == {"Unknown vox version: 250", "unexpected end of file"}

NotCalled == [kind |-> "NotCalled", detail |-> "", dense |-> NoneValue, palette |-> NoneValue]
Raises(detail) == [NotCalled EXCEPT !.kind = "raise", !.detail = detail]
Model(dense, palette) == [NotCalled EXCEPT !.kind = "model", !.dense = dense, !.palette = palette]

\* what CustomVoxParser(path).parse() and to_dense() may produce
DecoderOutcomes ==
  {Raises(d) : d \in DecodeFailures} \cup
  {Model(g, p) : g \in Grids \cup {EmptyArray}, p \in Palettes}

(* --------------------------- initial state ---------------------------- *)

FreshFrame ==
  [vox_file |-> Unbound, voxels |-> Unbound, palette |-> Unbound,
   x |-> <<>>, y |-> <<>>, z |-> <<>>, color_indices |-> <<>>, rgb_colors |-> <<>>,
   fig |-> NoFigure, exc |-> NoException]

NoRun == [kind |-> "None", vox_file |-> Unbound, decoder |-> NotCalled, fig |-> NoFigure]

\* rgb_colors kept in a module-level list that every invocation reads
LocalsSharedColours(r) == [frame[r] EXCEPT !.rgb_colors = frame[1].rgb_colors]

\* the local variables an invocation reads: its own
Locals(r) == frame[r]

Init ==
  /\ pc = [r \in Req |-> "idle"]
  /\ frame = [r \in Req |-> FreshFrame]
  /\ decoder = [r \in Req |-> NotCalled]
  /\ returned = [r \in Req |-> <<>>]
  /\ terminal = [r \in Req |-> "None"]
  /\ trace = [r \in Req |-> <<>>]
  /\ prev = NoRun

\* invocation r moves on to stage next with locals fr
Goto(r, next, stage, fr) ==
  /\ pc' = [pc EXCEPT ![r] = next]
  /\ frame' = [frame EXCEPT ![r] = fr]
  /\ trace' = [trace EXCEPT ![r] = Append(@, stage)]
  /\ UNCHANGED <<returned, terminal, prev>>

\* invocation r returns fr.fig and ends in the terminal state term
Finish(r, term, stage, fr) ==
  /\ pc' = [pc EXCEPT ![r] = "done"]
  /\ frame' = [frame EXCEPT ![r] = fr]
  /\ returned' = [returned EXCEPT ![r] = Append(@, fr.fig)]
  /\ terminal' = [terminal EXCEPT ![r] = term]
  /\ trace' = [trace EXCEPT ![r] = Append(@, stage)]
  /\ UNCHANGED prev

\* an exception raised inside the try block of display_vox_model
Raise(r, stage, fr) == Goto(r, "except", stage, fr)

(* -------------------------- display_vox_model ------------------------- *)

\* the interface calls display_vox_model(vox_file)
Call(r, files) ==
  /\ pc[r] \in {"idle", "done", "escaped"}
  /\ \E f \in files :
       frame' = [frame EXCEPT ![r] = [FreshFrame EXCEPT !.vox_file = f]]
  /\ pc' = [pc EXCEPT ![r] = "check_file"]
  /\ decoder' = [decoder EXCEPT ![r] = NotCalled]
  /\ returned' = [returned EXCEPT ![r] = <<>>]
  /\ terminal' = [terminal EXCEPT ![r] = "None"]
  /\ trace' = [trace EXCEPT ![r] = <<"Start">>]
  /\ UNCHANGED prev

\* lines 102-115
CheckFile(r) ==
  /\ pc[r] = "check_file"
  /\ IF Locals(r).vox_file = NoneValue
     THEN Finish(r, "MissingInput", "CheckFile",
                 [Locals(r) EXCEPT !.fig = Annotation(MsgMissingInput)])
     ELSE Goto(r, "check_extension", "CheckFile", Locals(r))
  /\ UNCHANGED decoder

\* lines 117-130
CheckExtension(r) ==
  /\ pc[r] = "check_extension"
  /\ IF ~endswith(Locals(r).vox_file.name, DotVox)
     THEN Finish(r, "InvalidExtension", "CheckExtension",
                 [Locals(r) EXCEPT !.fig = Annotation(MsgInvalidExtension)])
     ELSE Goto(r, "load", "CheckExtension", Locals(r))
  /\ UNCHANGED decoder

\* lines 132-133: the call of load_vox_model, whose decoder produces d
Load(r, outcomes) ==
  /\ pc[r] = "load"
  /\ \E d \in outcomes :
       /\ decoder' = [decoder EXCEPT ![r] = d]
       /\ LET res == load_vox_model(d)
          IN  IF res.exc # NoException
              THEN Raise(r, "Load", [Locals(r) EXCEPT !.exc = res.exc])
              ELSE Goto(r, "check_loaded", "Load",
                        [Locals(r) EXCEPT !.voxels = res.voxels, !.palette = res.palette])

\* lines 135-168
CheckLoaded(r) ==
  /\ pc[r] = "check_loaded"
  /\ IF Locals(r).voxels = NoneValue \/ Locals(r).palette = NoneValue
     THEN Finish(r, "DecodeError", "CheckLoaded",
                 [Locals(r) EXCEPT !.fig = Annotation(MsgDecodeError)])
     ELSE IF size(Locals(r).voxels) = 0
     THEN Finish(r, "Empty", "CheckLoaded",
                 [Locals(r) EXCEPT !.fig = Annotation(MsgEmpty)])
     ELSE Goto(r, "transform", "CheckLoaded", Locals(r))
  /\ UNCHANGED decoder

\* line 171, create_3d_scatter lines 32-48
StageTransform(r) ==
  /\ pc[r] = "transform"
  /\ Goto(r, "color", "Transform", Transform(Locals(r)))
  /\ UNCHANGED decoder

\* create_3d_scatter lines 51-53
StageColor(r) ==
  /\ pc[r] = "color"
  /\ LET fr == Color(Locals(r))
     IN  IF fr.exc # NoException
         THEN Raise(r, "Color", fr)
         ELSE Goto(r, "build", "Color", fr)
  /\ UNCHANGED decoder

\* create_3d_scatter lines 55-94
StageBuild(r) ==
  /\ pc[r] = "build"
  /\ LET fr == Build(Locals(r))
     IN  IF fr.exc # NoException
         THEN Raise(r, "Build", fr)
         ELSE Goto(r, "return", "Build", fr)
  /\ UNCHANGED decoder

\* create_3d_scatter line 96 and display_vox_model line 173
Return(r) ==
  /\ pc[r] = "return"
  /\ Finish(r, "Rendered", "Return", Locals(r))
  /\ UNCHANGED decoder

\* the classes `except Exception` catches among those that can be raised here;
\* KeyboardInterrupt and SystemExit derive from BaseException only
ExceptionClasses == {"IndexError", "ValueError", "ParsingException"}
\* except ValueError
CaughtValueErrorOnly(exc) == exc.type = "ValueError"

Caught(exc) == exc.type \in ExceptionClasses

\* lines 174-189: the handler of the try block; an exception it does not catch
\* leaves display_vox_model
Except(r) ==
  /\ pc[r] = "except"
  /\ IF Caught(Locals(r).exc)
     THEN Finish(r, "UnexpectedException", "Except",
                 [Locals(r) EXCEPT !.fig = Annotation(MsgUnexpected(Locals(r).exc.detail))])
     ELSE /\ pc' = [pc EXCEPT ![r] = "escaped"]
          /\ trace' = [trace EXCEPT ![r] = Append(@, "Except")]
          /\ UNCHANGED <<frame, returned, terminal, prev>>
  /\ UNCHANGED decoder

(* ----------------------- one client, many requests -------------------- *)

Next ==
  \/ Call(1, Files)
  \/ CheckFile(1)
  \/ CheckExtension(1)
  \/ Load(1, DecoderOutcomes)
  \/ CheckLoaded(1)
  \/ StageTransform(1)
  \/ StageColor(1)
  \/ StageBuild(1)
  \/ Return(1)
  \/ Except(1)

Spec == Init /\ [][Next]_vars

Stages ==
  {"idle", "check_file", "check_extension", "load", "check_loaded", "transform",
   "color", "build", "return", "except", "done", "escaped"}

\* invocation r leaves the stage it is at
Advance(r) ==
  /\ pc[r] \notin {"idle", "done", "escaped"}
  /\ \E next \in Stages \ {pc[r]} : pc' = [pc EXCEPT ![r] = next]

\* the interpreter runs a started invocation on: it does not stay at a stage
\* of display_vox_model for ever
LiveSpec == Spec /\ WF_pc(Advance(1))

(* ------------------- several clients, sample requests ----------------- *)

Dense(f) == ndarray([c \in Cells |-> IF c \in DOMAIN f THEN f[c] ELSE 0])

SampleFiles ==
  { NoneValue,
    File(<<"m", "o", "d", "e", "l", ".", "t", "x", "t">>),
    File(<<"m", "o", "d", "e", "l", ".", "v", "o", "x">>) }

SampleOutcomes ==
  { Raises("Unknown vox version: 250"),
    Model(Dense(<<>>), list(<< <<10, 20, 30, 255>> >>)),
    Model(Dense(<<0, 0, 1>> :> 1 @@ <<0, 1, 1>> :> 2), list(<< <<10, 20, 30, 255>> >>)),
    Model(Dense(<<1, 0, 0>> :> 2), list(<< <<10, 20, 30>>, <<1, 2>> >>)) }

\* a finished run is kept for comparison with later ones
Remember(r) ==
  /\ pc[r] = "done"
  /\ prev' = [kind |-> "Run", vox_file |-> frame[r].vox_file, decoder |-> decoder[r],
              fig |-> returned[r][1]]
  /\ prev' # prev
  /\ UNCHANGED <<pc, frame, decoder, returned, terminal, trace>>

ConcNext ==
  \E r \in Req :
    \/ Call(r, SampleFiles)
    \/ CheckFile(r)
    \/ CheckExtension(r)
    \/ Load(r, SampleOutcomes)
    \/ CheckLoaded(r)
    \/ StageTransform(r)
    \/ StageColor(r)
    \/ StageBuild(r)
    \/ Return(r)
    \/ Except(r)
    \/ Remember(r)

ConcSpec == Init /\ [][ConcNext]_vars

(* ------------------------------ properties ---------------------------- *)

Done(r) == pc[r] = "done"
Scene(r) == returned[r][1]
Rendered(r) == Done(r) /\ terminal[r] = "Rendered"
Placeholder(r, text) == Scene(r).kind = "annotation" /\ Scene(r).text = text

\* the name of the file ends with the four characters . v o x
HasVoxSuffix(f) ==
  /\ f.kind = "File"
  /\ Len(f.name) >= 4
  /\ f.name[Len(f.name) - 3] = "."
  /\ f.name[Len(f.name) - 2] = "v"
  /\ f.name[Len(f.name) - 1] = "o"
  /\ f.name[Len(f.name)] = "x"

\* the occupied cells of the grid the decoder produced for r
Occupied(r) == {c \in DOMAIN decoder[r].dense.data : decoder[r].dense.data[c] > 0}

\* the place of cell c in a scan with x outermost, then y, then z
CellKey(c) == (c[1] * (MaxCoord + 1) * (MaxCoord + 1)) + (c[2] * (MaxCoord + 1)) + c[3]
Place(r, c) == 1 + Cardinality({d \in Occupied(r) : CellKey(d) < CellKey(c)})
CellAt(r, i) == CHOOSE c \in Occupied(r) : Place(r, c) = i

Abs(u) == [u EXCEPT !.neg = FALSE]
Half == Dyadic(FALSE, <<1>>, -1)
\* the integer k is the integer nearest to the float u
Nearest(u, k) == Less(Abs(ExactSub(u, FromInt(k))), Half)

Square(u) == ExactMul(u, u)
\* the squared Euclidean distance between points i and j of a figure, exactly
SqDist(fig, i, j) ==
  ExactAdd(ExactAdd(Square(ExactSub(fig.x[i], fig.x[j])), Square(ExactSub(fig.y[i], fig.y[j]))),
           Square(ExactSub(fig.z[i], fig.z[j])))
Dist(a, b) == IF a < b THEN b - a ELSE a - b
GridSqDist(c, d) ==
  ((c[1] - d[1]) * (c[1] - d[1])) + ((c[2] - d[2]) * (c[2] - d[2])) + ((c[3] - d[3]) * (c[3] - d[3]))
Pairs(r) == {p \in (1..Len(Scene(r).x)) \X (1..Len(Scene(r).x)) : p[1] < p[2]}

\* C1 (as amended): every finished request has returned exactly one scene and no
\* exception leaves display_vox_model; an exception raised by the decoder becomes
\* the fixed decode-error placeholder, and an exception raised in a later stage
\* becomes the placeholder "Error loading model: {detail}".
C1_OneSceneNoEscape ==
  \A r \in Req :
    /\ pc[r] # "escaped"
    /\ Len(returned[r]) <= 1
    /\ Done(r) =>
         /\ Len(returned[r]) = 1
         /\ Scene(r).kind \in {"annotation", "scatter3d"}
         /\ decoder[r].kind = "raise" =>
              Placeholder(r, "Error: Could not load voxel data from file\nThis might be due to version incompatibility.\nThe viewer currently supports .vox files up to version 200.")
         /\ frame[r].exc # NoException =>
              Placeholder(r, "Error loading model: " \o frame[r].exc.detail)

C1_Witness ==
  Done(1) /\ frame[1].exc.type = "IndexError" /\ terminal[1] = "UnexpectedException"

\* C1 (as stated): every finished request has returned exactly one scene, no
\* exception escapes, and an exception raised in any stage, the decoder's
\* included, becomes the placeholder "Error loading model: {detail}".
C1_AnyStageUnexpected ==
  \A r \in Req :
    /\ pc[r] # "escaped"
    /\ Done(r) =>
         /\ Len(returned[r]) = 1
         /\ decoder[r].kind = "raise" =>
              Placeholder(r, "Error loading model: " \o decoder[r].detail)
         /\ frame[r].exc # NoException =>
              Placeholder(r, "Error loading model: " \o frame[r].exc.detail)

\* C2: a .vox file whose decoded grid has no occupied cell yields the placeholder
\* "Error: No voxels found in the model".
C2_EmptyGridMessage ==
  \A r \in Req :
    (Done(r) /\ HasVoxSuffix(frame[r].vox_file) /\ decoder[r].kind = "model" /\ Occupied(r) = {})
      => Placeholder(r, "Error: No voxels found in the model")

C2_Witness ==
  /\ Done(1)
  /\ HasVoxSuffix(frame[1].vox_file)
  /\ decoder[1].kind = "model"
  /\ DOMAIN decoder[1].dense.data = Cells
  /\ Occupied(1) = {}
  /\ terminal[1] = "DecodeError"

\* C3: whenever the decoder fails, whatever it raised, the scene is the placeholder
\* with the fixed three-line message, which holds none of the exception's text.
C3_DecodeFailureFixedMessage ==
  \A r \in Req :
    (Done(r) /\ decoder[r].kind = "raise") =>
      /\ HasVoxSuffix(frame[r].vox_file)
      /\ Placeholder(r, "Error: Could not load voxel data from file\nThis might be due to version incompatibility.\nThe viewer currently supports .vox files up to version 200.")
      /\ terminal[r] = "DecodeError"

C3_Witness ==
  Done(1) /\ decoder[1].kind = "raise" /\ decoder[1].detail = "Unknown vox version: 250"

\* C4: no file gives "Please upload a .vox file" (the extension is never looked
\* at); a file whose name does not end with ".vox", case-sensitively, gives
\* "Please upload a valid .vox file"; a name ending with ".vox" passes both checks
\* and reaches the decoder.
C4_InputClassification ==
  \A r \in Req :
    Done(r) =>
      /\ frame[r].vox_file.kind = "None" =>
           /\ Placeholder(r, "Please upload a .vox file")
           /\ trace[r] = <<"Start", "CheckFile">>
      /\ (frame[r].vox_file.kind = "File" /\ ~HasVoxSuffix(frame[r].vox_file)) =>
           /\ Placeholder(r, "Please upload a valid .vox file")
           /\ decoder[r].kind = "NotCalled"
      /\ HasVoxSuffix(frame[r].vox_file) =>
           /\ decoder[r].kind # "NotCalled"
           /\ ~Placeholder(r, "Please upload a .vox file")
           /\ ~Placeholder(r, "Please upload a valid .vox file")

C4_Witness ==
  /\ Done(1)
  /\ frame[1].vox_file = File(<<"m", "o", "d", "e", "l", ".", "V", "O", "X">>)
  /\ terminal[1] = "InvalidExtension"

\* the text "rgb(r, g, b)" of the palette entries of the model
ExpectedText(e) ==
  CASE <<e[1], e[2], e[3]>> = <<10, 20, 30>> -> "rgb(10, 20, 30)"
    [] <<e[1], e[2], e[3]>> = <<0, 255, 7>> -> "rgb(0, 255, 7)"
    [] OTHER -> "unknown"

\* C5: a rendered scene has exactly one point per occupied cell, in the order of
\* a scan with x outermost, then y, then z: point i is the image of the i-th
\* occupied cell and its colour is "rgb(r, g, b)" of palette[v - 1] when v - 1 is
\* within the palette, "rgb(255, 255, 255)" otherwise.
C5_PointsAndColours ==
  \A r \in Req :
    Rendered(r) =>
      LET fig == Scene(r)
          grid == decoder[r].dense.data
          pal == decoder[r].palette.items
      IN  /\ Len(fig.x) = Cardinality(Occupied(r))
          /\ Len(fig.y) = Cardinality(Occupied(r))
          /\ Len(fig.z) = Cardinality(Occupied(r))
          /\ Len(fig.color) = Cardinality(Occupied(r))
          /\ \A c \in Occupied(r) :
               LET i == Place(r, c)
                   idx == grid[c] - 1
               IN  /\ Nearest(fig.x[i], -c[1])
                   /\ Nearest(fig.y[i], c[3])
                   /\ Nearest(fig.z[i], c[2])
                   /\ fig.color[i] = IF 0 <= idx /\ idx < Len(pal)
                                     THEN ExpectedText(pal[idx + 1])
                                     ELSE "rgb(255, 255, 255)"

C5_Witness ==
  /\ Rendered(1)
  /\ Len(Scene(1).color) = 2
  /\ Scene(1).color[1] = "rgb(255, 255, 255)"
  /\ Scene(1).color[2] = "rgb(10, 20, 30)"
  /\ decoder[1].dense.data[<<0, 1, 0>>] = 2
  /\ decoder[1].dense.data[<<1, 0, 0>>] = 1

Zero == FromInt(0)
CoordSum(c) == c[1] + c[2] + c[3]
\* the rounding the two rotations can add to the squared distance of two cells
DistTolerance(c, d) ==
  Dyadic(FALSE,
         NatLimbs((CoordSum(c) + CoordSum(d))
                    * (1 + Dist(c[1], d[1]) + Dist(c[2], d[2]) + Dist(c[3], d[3]))),
         -51)

\* C6 (as amended): the transform preserves distances up to the rounding of the
\* binary64 operations: for every pair of occupied cells the squared distance of
\* their transformed coordinates differs from the squared distance of their grid
\* coordinates by at most 2^-51 * (sum of the coordinates of both cells) *
\* (1 + |dx| + |dy| + |dz|); a single cell at (0,0,0) maps to (0,0,0) exactly.
C6_DistancesUpToRounding ==
  \A r \in Req :
    Rendered(r) =>
      /\ \A p \in Pairs(r) :
           Leq(Abs(ExactSub(SqDist(Scene(r), p[1], p[2]),
                            FromInt(GridSqDist(CellAt(r, p[1]), CellAt(r, p[2]))))),
               DistTolerance(CellAt(r, p[1]), CellAt(r, p[2])))
      /\ Occupied(r) = {<<0, 0, 0>>} =>
           Scene(r).x = <<Zero>> /\ Scene(r).y = <<Zero>> /\ Scene(r).z = <<Zero>>

C6_Witness ==
  /\ Rendered(1)
  /\ Occupied(1) = {<<0, 0, 1>>, <<0, 1, 1>>}
  /\ SqDist(Scene(1), 1, 2) # FromInt(1)

\* C6 (as stated): for every pair of occupied cells the squared distance of their
\* transformed coordinates equals the squared distance of their grid coordinates.
C6_ExactDistances ==
  \A r \in Req :
    Rendered(r) =>
      /\ \A p \in Pairs(r) :
           SqDist(Scene(r), p[1], p[2]) = FromInt(GridSqDist(CellAt(r, p[1]), CellAt(r, p[2])))
      /\ Occupied(r) = {<<0, 0, 0>>} =>
           Scene(r).x = <<Zero>> /\ Scene(r).y = <<Zero>> /\ Scene(r).z = <<Zero>>

\* display_vox_model run alone, from its first line to its return, on the file f
\* with the decoder producing d
RunAlone(f, d) ==
  IF f = NoneValue THEN Annotation(MsgMissingInput)
  ELSE IF ~endswith(f.name, DotVox) THEN Annotation(MsgInvalidExtension)
  ELSE LET res == load_vox_model(d)
       IN  IF res.voxels = NoneValue \/ res.palette = NoneValue THEN Annotation(MsgDecodeError)
           ELSE IF size(res.voxels) = 0 THEN Annotation(MsgEmpty)
           ELSE LET coloured == Color(Transform([FreshFrame EXCEPT !.vox_file = f,
                                                                   !.voxels = res.voxels,
                                                                   !.palette = res.palette]))
                IN  IF coloured.exc # NoException
                    THEN Annotation(MsgUnexpected(coloured.exc.detail))
                    ELSE Build(coloured).fig

\* C7: two runs on the same input (file presence, name, decoder result) return
\* identical scenes, whether they ran side by side or one after the other; what
\* an earlier run left behind changes nothing.
C7_Determinism ==
  /\ \A r1, r2 \in Req :
       (Done(r1) /\ Done(r2) /\ frame[r1].vox_file = frame[r2].vox_file
          /\ decoder[r1] = decoder[r2])
         => (returned[r1] = returned[r2] /\ terminal[r1] = terminal[r2])
  /\ \A r \in Req :
       (Done(r) /\ prev.kind = "Run" /\ prev.vox_file = frame[r].vox_file
          /\ prev.decoder = decoder[r])
         => returned[r] = <<prev.fig>>

C7_Witness ==
  /\ Rendered(1)
  /\ Len(Scene(1).x) = 2
  /\ prev.kind = "Run"
  /\ prev.vox_file = frame[1].vox_file
  /\ prev.decoder = decoder[1]
  /\ Len(trace[2]) > 1

\* C8: whatever the interleaving of the stages of the concurrent invocations,
\* each invocation returns the scene it returns when run alone on its input.
C8_Independence ==
  \A r \in Req :
    Done(r) => returned[r] = <<RunAlone(frame[r].vox_file, decoder[r])>>

C8_Witness ==
  /\ Rendered(2)
  /\ pc[1] = "color"
  /\ decoder[1] # decoder[2]
  /\ Len(frame[1].x) = 1

TerminalStates ==
  {"MissingInput", "InvalidExtension", "DecodeError", "Empty", "Rendered", "UnexpectedException"}

At(tr, stage) == {i \in 1..Len(tr) : tr[i] = stage}

StageOrder(r) ==
  LET tr == trace[r] IN
    /\ pc[r] = "check_file" =>
         (frame[r] = [FreshFrame EXCEPT !.vox_file = frame[r].vox_file]
            /\ decoder[r] = NotCalled /\ returned[r] = <<>>)
    /\ pc[r] \in Stages \ {"escaped"}
    /\ Done(r) <=> terminal[r] \in TerminalStates
    /\ ~Done(r) => (terminal[r] = "None" /\ returned[r] = <<>>)
    /\ \A s \in {"Load", "Transform", "Color", "Build"} : Cardinality(At(tr, s)) <= 1
    /\ \A i \in At(tr, "Load") :
         SubSeq(tr, 1, i - 1) = <<"Start", "CheckFile", "CheckExtension">>
           /\ HasVoxSuffix(frame[r].vox_file)
    /\ \A i \in At(tr, "Transform") :
         (\E j \in At(tr, "Load") : j < i) /\ decoder[r].kind = "model" /\ Occupied(r) # {}
    /\ \A i \in At(tr, "Color") : i > 1 /\ tr[i - 1] = "Transform"
    /\ \A i \in At(tr, "Build") : i > 1 /\ tr[i - 1] = "Color"
    /\ terminal[r] = "Rendered" => (tr[Len(tr)] = "Return" /\ tr[Len(tr) - 1] = "Build")

\* C9: every run starts fresh and, once started, reaches exactly one of the six
\* terminal states; the decoder is invoked at most once and only after the
\* missing-file and extension checks have passed; Transform, Color and Build run
\* only after a successful load, in that order, and Rendered only after Build.
C9_StageOrdering ==
  /\ [](\A r \in Req : StageOrder(r))
  /\ \A r \in Req : (pc[r] = "check_file") ~> (pc[r] = "done")

C9_Witness ==
  /\ Rendered(1)
  /\ trace[1] = <<"Start", "CheckFile", "CheckExtension", "Load", "CheckLoaded",
                  "Transform", "Color", "Build", "Return">>

Inside(u, range) == Leq(range[1], u) /\ Leq(u, range[2])
Width(range) == ExactSub(range[2], range[1])
Ranges(fig) == {fig.xrange, fig.yrange, fig.zrange}
\* 2^-53 times the sum of the magnitudes of the four ends of two ranges: the
\* rounding the four ends can carry
EndsRounding(a, b) ==
  LET sum == ExactAdd(ExactAdd(Abs(a[1]), Abs(a[2])), ExactAdd(Abs(b[1]), Abs(b[2])))
  IN  Dyadic(FALSE, sum.mag, sum.exp - 53)

FramesPoints(fig) ==
  /\ \A i \in 1..Len(fig.x) :
       Inside(fig.x[i], fig.xrange) /\ Inside(fig.y[i], fig.yrange) /\ Inside(fig.z[i], fig.zrange)
  /\ Len(fig.x) = 1 =>
       /\ fig.xrange = <<fig.x[1], fig.x[1]>>
       /\ fig.yrange = <<fig.y[1], fig.y[1]>>
       /\ fig.zrange = <<fig.z[1], fig.z[1]>>

\* C10 (as amended): in every rendered scene each point lies inside the range of
\* each axis; the three ranges have the same width up to the rounding of their
\* ends (two widths differ by at most 2^-53 times the sum of the magnitudes of
\* the four ends); with one occupied cell each range is the single value center.
C10_FramingUpToRounding ==
  \A r \in Req :
    Rendered(r) =>
      /\ FramesPoints(Scene(r))
      /\ \A a, b \in Ranges(Scene(r)) :
           Leq(Abs(ExactSub(Width(a), Width(b))), EndsRounding(a, b))

C10_Witness ==
  /\ Rendered(1)
  /\ Occupied(1) = {<<0, 0, 0>>, <<1, 0, 0>>}
  /\ Width(Scene(1).xrange) # Width(Scene(1).zrange)

\* C10 (as stated): each point lies inside the range of each axis, the three
\* ranges have the same width, and with one occupied cell each range is the
\* single value center.
C10_EqualWidths ==
  \A r \in Req :
    Rendered(r) =>
      /\ FramesPoints(Scene(r))
      /\ \A a, b \in Ranges(Scene(r)) : Width(a) = Width(b)

====
